---------------------------- MODULE Spec2Model ----------------------------
(***************************************************************************)
(* A model of the AI service of the task manager (src/aiService.ts): the   *)
(* task-analysis pipeline (cache check, remote call, response parsing,     *)
(* validation, confidence scoring, cache write, heuristic fallback), the   *)
(* suggestion, insight and voice operations, and the pure helpers they     *)
(* use.                                                                    *)
(*                                                                         *)
(* Representation.  A JavaScript string is a sequence of one-character     *)
(* strings.  A JavaScript number is a fixed-point integer counting         *)
(* hundredths (7.5 is 750).  A JavaScript value is a record                *)
(* [k, n, s, a, o]: its kind k, and the number, string, array elements or  *)
(* object members that kind uses (the others empty).  A text in JSON       *)
(* syntax (a remote reply, a cache value) is a sequence of tokens; a       *)
(* number token carries its decimal digits.                                *)
(***************************************************************************)
EXTENDS Integers, Sequences, FiniteSets, TLC

(***************************************************************************)
(* Characters and strings                                                  *)
(***************************************************************************)

\* The printable ASCII characters 32..122, in code order (the double quote,
\* the backslash and the backtick, which no text of the model uses, by name).
Ascii ==
  << " ", "!", "dquote", "#", "$", "%", "&", "'", "(", ")", "*", "+", ",",
     "-", ".", "/", "0", "1", "2", "3", "4", "5", "6", "7", "8", "9",
     ":", ";", "<", "=", ">", "?", "@", "A", "B", "C", "D", "E", "F",
     "G", "H", "I", "J", "K", "L", "M", "N", "O", "P", "Q", "R", "S",
     "T", "U", "V", "W", "X", "Y", "Z", "[", "bslash", "]", "^", "_", "btick",
     "a", "b", "c", "d", "e", "f", "g", "h", "i", "j", "k", "l", "m",
     "n", "o", "p", "q", "r", "s", "t", "u", "v", "w", "x", "y", "z" >>

\* The code of every character.
CodeTable ==
  [c \in {Ascii[i] : i \in 1..Len(Ascii)} |-> 31 + (CHOOSE i \in 1..Len(Ascii) : Ascii[i] = c)]

\* The character code of c.
CharCode(c) ==
  CodeTable[c]

\* The character with code n.
FromCharCode(n) ==
  Ascii[n - 31]

\* String.prototype.toLowerCase on one character, then on a string.
LowerChar(c) ==
  IF CharCode(c) >= 65 /\ CharCode(c) <= 90 THEN FromCharCode(CharCode(c) + 32) ELSE c

toLowerCase(str) ==
  [i \in 1..Len(str) |-> LowerChar(str[i])]

\* String.prototype.includes.
includes(str, sub) ==
  \E i \in 1..(Len(str) - Len(sub) + 1) : SubSeq(str, i, i + Len(sub) - 1) = sub

Min(a, b) ==
  IF a < b THEN a ELSE b

Max(a, b) ==
  IF a > b THEN a ELSE b

\* The last n elements instead of the first.
sliceFromEnd(arr, n) ==
  SubSeq(arr, Len(arr) - Min(n, Len(arr)) + 1, Len(arr))

\* Array.prototype.slice(0, n).
slice(arr, n) ==
  SubSeq(arr, 1, Min(n, Len(arr)))

IsSpace(c) ==
  c = " "

IsWordChar(c) ==
  \/ CharCode(c) >= 48 /\ CharCode(c) <= 57
  \/ CharCode(c) >= 65 /\ CharCode(c) <= 90
  \/ CharCode(c) >= 97 /\ CharCode(c) <= 122
  \/ c = "_"

\* str.split(sep) where sep matches the maximal runs of characters for which
\* IsSep holds: the pieces between the runs, the empty ones included.
RECURSIVE SplitRuns(_, _, _, _, _)
SplitRuns(str, i, cur, acc, wordChars) ==
  IF i > Len(str) THEN Append(acc, cur)
  ELSE LET sep == IF wordChars THEN ~IsWordChar(str[i]) ELSE IsSpace(str[i])
           prevSep == i > 1 /\ (IF wordChars THEN ~IsWordChar(str[i-1]) ELSE IsSpace(str[i-1]))
       IN IF sep
            THEN IF prevSep THEN SplitRuns(str, i + 1, cur, acc, wordChars)
                 ELSE SplitRuns(str, i + 1, <<>>, Append(acc, cur), wordChars)
            ELSE SplitRuns(str, i + 1, Append(cur, str[i]), acc, wordChars)

\* text.split(/\s+/).
splitWhitespace(str) ==
  SplitRuns(str, 1, <<>>, <<>>, FALSE)

\* Array.prototype.filter.
RECURSIVE filterLonger(_, _)
filterLonger(words, n) ==
  IF words = <<>> THEN <<>>
  ELSE IF Len(Head(words)) > n THEN <<Head(words)>> \o filterLonger(Tail(words), n)
       ELSE filterLonger(Tail(words), n)

\* [...new Set(words)]: the distinct words in first-seen order.
RECURSIVE dedupe(_, _)
dedupe(words, acc) ==
  IF words = <<>> THEN acc
  ELSE IF \E i \in 1..Len(acc) : acc[i] = Head(words)
         THEN dedupe(Tail(words), acc)
         ELSE dedupe(Tail(words), Append(acc, Head(words)))

(***************************************************************************)
(* Numbers: fixed point, in hundredths                                     *)
(***************************************************************************)

\* One unit, in hundredths.
Unit ==
  10 * 10

\* n units.
U(n) ==
  n * Unit

IsDigit(c) ==
  CharCode(c) >= 48 /\ CharCode(c) <= 57

DigitChar(d) ==
  FromCharCode(48 + d)

\* The decimal digits of a natural number.
RECURSIVE NatToChars(_)
NatToChars(n) ==
  IF n < 10 THEN <<DigitChar(n)>>
  ELSE Append(NatToChars(n \div 10), DigitChar(n % 10))

\* Number.prototype.toString as JSON.stringify uses it: an optional sign, the
\* integer digits, and the fraction digits without trailing zeros.
NumToChars(n) ==
  LET m == IF n < 0 THEN 0 - n ELSE n
      frac == m % Unit
      body == NatToChars(m \div Unit)
               \o (IF frac = 0 THEN <<>>
                   ELSE IF frac % 10 = 0 THEN <<".", DigitChar(frac \div 10)>>
                   ELSE <<".", DigitChar(frac \div 10), DigitChar(frac % 10)>>)
  IN IF n < 0 THEN <<"-">> \o body ELSE body

RECURSIVE CharsToNat(_)
CharsToNat(str) ==
  IF str = <<>> THEN 0
  ELSE 10 * CharsToNat(SubSeq(str, 1, Len(str) - 1)) + (CharCode(str[Len(str)]) - 48)

\* Whether str is a decimal literal: -?digits(.digits)? with one or two
\* fraction digits (the precision the fixed-point numbers carry).
IsNumeric(str) ==
  LET neg == str # <<>> /\ str[1] = "-"
      rest == IF neg THEN Tail(str) ELSE str
      dots == {i \in 1..Len(rest) : rest[i] = "."}
  IN /\ rest # <<>>
     /\ \A i \in 1..Len(rest) : IsDigit(rest[i]) \/ rest[i] = "."
     /\ Cardinality(dots) <= 1
     /\ \A i \in dots : i > 1 /\ Len(rest) - i \in {1, 2}

\* The number a decimal literal denotes.
CharsToNum(str) ==
  LET neg == str[1] = "-"
      rest == IF neg THEN Tail(str) ELSE str
      dots == {i \in 1..Len(rest) : rest[i] = "."}
      dot == IF dots = {} THEN Len(rest) + 1 ELSE CHOOSE i \in dots : TRUE
      whole == CharsToNat(SubSeq(rest, 1, dot - 1))
      fdig == SubSeq(rest, dot + 1, Len(rest))
      frac == IF Len(fdig) = 0 THEN 0
              ELSE IF Len(fdig) = 1 THEN 10 * CharsToNat(fdig)
              ELSE CharsToNat(fdig)
      m == whole * Unit + frac
  IN IF neg THEN 0 - m ELSE m

\* Math.round(x) for x = n / d (d > 0): the integer nearest to x, halves up.
MathRound(n, d) ==
  (2 * n + d) \div (2 * d)

(***************************************************************************)
(* JavaScript values                                                       *)
(***************************************************************************)

VUndef ==
  [k |-> "undefined", n |-> 0, s |-> <<>>, a |-> <<>>, o |-> <<>>]

VNull ==
  [k |-> "null", n |-> 0, s |-> <<>>, a |-> <<>>, o |-> <<>>]

VBool(b) ==
  [k |-> IF b THEN "true" ELSE "false", n |-> 0, s |-> <<>>, a |-> <<>>, o |-> <<>>]

VNum(x) ==
  [k |-> "number", n |-> x, s |-> <<>>, a |-> <<>>, o |-> <<>>]

VStr(str) ==
  [k |-> "string", n |-> 0, s |-> str, a |-> <<>>, o |-> <<>>]

VArr(elems) ==
  [k |-> "array", n |-> 0, s |-> <<>>, a |-> elems, o |-> <<>>]

\* An object: its members, [key, val], in insertion order.
VObj(members) ==
  [k |-> "object", n |-> 0, s |-> <<>>, a |-> <<>>, o |-> members]

\* obj.key: the member's value, undefined when there is none (or when obj is
\* no object).
Get(obj, key) ==
  IF \E i \in 1..Len(obj.o) : obj.o[i].key = key
    THEN obj.o[CHOOSE i \in 1..Len(obj.o) : obj.o[i].key = key].val
    ELSE VUndef

\* obj[key] = val on the member list: a key already present keeps its place.
SetMember(members, key, val) ==
  IF \E i \in 1..Len(members) : members[i].key = key
    THEN [i \in 1..Len(members) |->
            IF members[i].key = key THEN [key |-> key, val |-> val] ELSE members[i]]
    ELSE Append(members, [key |-> key, val |-> val])

\* !value.
Falsy(v) ==
  \/ v.k \in {"undefined", "null", "false"}
  \/ v.k = "number" /\ v.n = 0
  \/ v.k = "string" /\ v.s = <<>>

ArrayIsArray(v) ==
  v.k = "array"

\* Number(value): [nan, n].
NaN ==
  [nan |-> TRUE, n |-> 0]

Num(x) ==
  [nan |-> FALSE, n |-> x]

RECURSIVE ToNumber(_)
ToNumber(v) ==
  CASE v.k = "undefined" -> NaN
    [] v.k = "null" -> Num(0)
    [] v.k = "true" -> Num(Unit)
    [] v.k = "false" -> Num(0)
    [] v.k = "number" -> Num(v.n)
    [] v.k = "string" -> IF v.s = <<>> THEN Num(0)
                         ELSE IF IsNumeric(v.s) THEN Num(CharsToNum(v.s))
                         ELSE NaN
    [] v.k = "array" -> IF Len(v.a) = 0 THEN Num(0)
                        ELSE IF Len(v.a) > 1 THEN NaN
                        ELSE IF v.a[1].k \in {"null", "undefined"} THEN Num(0)
                        ELSE IF v.a[1].k \in {"number", "string", "array"}
                               THEN ToNumber(v.a[1])
                        ELSE NaN
    [] OTHER -> NaN

(***************************************************************************)
(* JSON texts: token sequences                                             *)
(***************************************************************************)

\* A token: punctuation and the literals are their own kind t; a string token
\* carries its characters, a number token its digits, a word token (text
\* that is no JSON) its characters.
Tok(t) ==
  [t |-> t, s |-> <<>>]

TStr(str) ==
  [t |-> "str", s |-> str]

TNum(digits) ==
  [t |-> "num", s |-> digits]

TWord(str) ==
  [t |-> "word", s |-> str]

RECURSIVE StringifyValue(_)
RECURSIVE StringifyElements(_, _)
RECURSIVE StringifyMembers(_, _)
\* JSON.stringify(v) for a value that is not undefined.
StringifyValue(v) ==
  CASE v.k = "null" -> <<Tok("null")>>
    [] v.k = "undefined" -> <<Tok("null")>>
    [] v.k = "true" -> <<Tok("true")>>
    [] v.k = "false" -> <<Tok("false")>>
    [] v.k = "number" -> <<TNum(NumToChars(v.n))>>
    [] v.k = "string" -> <<TStr(v.s)>>
    [] v.k = "array" -> <<Tok("[")>> \o StringifyElements(v.a, 1) \o <<Tok("]")>>
    [] v.k = "object" -> <<Tok("{")>> \o StringifyMembers(v.o, TRUE) \o <<Tok("}")>>

\* The elements from the i-th on, comma separated (undefined prints as null).
StringifyElements(elems, i) ==
  IF i > Len(elems) THEN <<>>
  ELSE (IF i > 1 THEN <<Tok(",")>> ELSE <<>>)
       \o StringifyValue(elems[i]) \o StringifyElements(elems, i + 1)

\* The members, comma separated; a member whose value is undefined is left
\* out.
StringifyMembers(members, first) ==
  IF members = <<>> THEN <<>>
  ELSE IF Head(members).val.k = "undefined" THEN StringifyMembers(Tail(members), first)
  ELSE (IF first THEN <<>> ELSE <<Tok(",")>>)
       \o <<TStr(Head(members).key), Tok(":")>>
       \o StringifyValue(Head(members).val)
       \o StringifyMembers(Tail(members), FALSE)

JSONstringify(v) ==
  StringifyValue(v)

\* A parse step's result: whether it succeeded, the value, and the index of
\* the first token after it.
ParseFail ==
  [ok |-> FALSE, val |-> VUndef, next |-> 0]

ParseOk(v, next) ==
  [ok |-> TRUE, val |-> v, next |-> next]

RECURSIVE ParseValue(_, _)
RECURSIVE ParseElements(_, _, _)
RECURSIVE ParseMembers(_, _, _)
\* The JSON value that starts at token i.
ParseValue(toks, i) ==
  IF i > Len(toks) THEN ParseFail
  ELSE CASE toks[i].t = "str" -> ParseOk(VStr(toks[i].s), i + 1)
         [] toks[i].t = "num" -> IF IsNumeric(toks[i].s)
                                   THEN ParseOk(VNum(CharsToNum(toks[i].s)), i + 1)
                                   ELSE ParseFail
         [] toks[i].t = "true" -> ParseOk(VBool(TRUE), i + 1)
         [] toks[i].t = "false" -> ParseOk(VBool(FALSE), i + 1)
         [] toks[i].t = "null" -> ParseOk(VNull, i + 1)
         [] toks[i].t = "[" ->
              IF i + 1 <= Len(toks) /\ toks[i + 1].t = "]"
                THEN ParseOk(VArr(<<>>), i + 2)
                ELSE ParseElements(toks, i + 1, <<>>)
         [] toks[i].t = "{" ->
              IF i + 1 <= Len(toks) /\ toks[i + 1].t = "}"
                THEN ParseOk(VObj(<<>>), i + 2)
                ELSE ParseMembers(toks, i + 1, <<>>)
         [] OTHER -> ParseFail

\* The elements of an array from token i on, up to its closing bracket.
ParseElements(toks, i, acc) ==
  LET r == ParseValue(toks, i)
  IN IF ~r.ok \/ r.next > Len(toks) THEN ParseFail
     ELSE IF toks[r.next].t = "," THEN ParseElements(toks, r.next + 1, Append(acc, r.val))
     ELSE IF toks[r.next].t = "]" THEN ParseOk(VArr(Append(acc, r.val)), r.next + 1)
     ELSE ParseFail

\* The members of an object from token i on, up to its closing brace.
ParseMembers(toks, i, acc) ==
  IF i + 1 > Len(toks) \/ toks[i].t # "str" \/ toks[i + 1].t # ":" THEN ParseFail
  ELSE LET r == ParseValue(toks, i + 2)
       IN IF ~r.ok \/ r.next > Len(toks) THEN ParseFail
          ELSE IF toks[r.next].t = ","
                 THEN ParseMembers(toks, r.next + 1, SetMember(acc, toks[i].s, r.val))
          ELSE IF toks[r.next].t = "}"
                 THEN ParseOk(VObj(SetMember(acc, toks[i].s, r.val)), r.next + 1)
          ELSE ParseFail

\* JSON.parse(text): [ok, val]; ok is FALSE where JSON.parse throws.
JSONparse(toks) ==
  LET r == ParseValue(toks, 1)
  IN IF r.ok /\ r.next = Len(toks) + 1
       THEN [ok |-> TRUE, val |-> r.val]
       ELSE [ok |-> FALSE, val |-> VUndef]

(***************************************************************************)
(* String constants of the service                                         *)
(***************************************************************************)

\* The property names the service reads and writes.
K ==
  [ priority |->
      <<"p", "r", "i", "o", "r", "i", "t", "y">>,
    estimatedHours |->
      <<"e", "s", "t", "i", "m", "a", "t", "e", "d", "H", "o", "u", "r", "s">>,
    complexity |->
      <<"c", "o", "m", "p", "l", "e", "x", "i", "t", "y">>,
    sentiment |->
      <<"s", "e", "n", "t", "i", "m", "e", "n", "t">>,
    tags |->
      <<"t", "a", "g", "s">>,
    deadlineUrgency |->
      <<"d", "e", "a", "d", "l", "i", "n", "e", "U", "r", "g", "e", "n", "c", "y">>,
    suggestedSubtasks |->
      <<"s", "u", "g", "g", "e", "s", "t", "e", "d", "S", "u", "b", "t", "a", "s", "k", "s">>,
    optimalTimeSlot |->
      <<"o", "p", "t", "i", "m", "a", "l", "T", "i", "m", "e", "S", "l", "o", "t">>,
    confidenceScore |->
      <<"c", "o", "n", "f", "i", "d", "e", "n", "c", "e", "S", "c", "o", "r", "e">>,
    title |->
      <<"t", "i", "t", "l", "e">>,
    description |->
      <<"d", "e", "s", "c", "r", "i", "p", "t", "i", "o", "n">>,
    dueDate |->
      <<"d", "u", "e", "D", "a", "t", "e">>,
    category |->
      <<"c", "a", "t", "e", "g", "o", "r", "y">>,
    type |->
      <<"t", "y", "p", "e">>,
    impact |->
      <<"i", "m", "p", "a", "c", "t">>,
    actionable |->
      <<"a", "c", "t", "i", "o", "n", "a", "b", "l", "e">>,
    suggestions |->
      <<"s", "u", "g", "g", "e", "s", "t", "i", "o", "n", "s">> ]

\* The string values the service compares with and produces.
S ==
  [ low |->
      <<"l", "o", "w">>,
    medium |->
      <<"m", "e", "d", "i", "u", "m">>,
    high |->
      <<"h", "i", "g", "h">>,
    positive |->
      <<"p", "o", "s", "i", "t", "i", "v", "e">>,
    negative |->
      <<"n", "e", "g", "a", "t", "i", "v", "e">>,
    neutral |->
      <<"n", "e", "u", "t", "r", "a", "l">>,
    morning |->
      <<"m", "o", "r", "n", "i", "n", "g">>,
    afternoon |->
      <<"a", "f", "t", "e", "r", "n", "o", "o", "n">>,
    evening |->
      <<"e", "v", "e", "n", "i", "n", "g">>,
    flexible |->
      <<"f", "l", "e", "x", "i", "b", "l", "e">>,
    other |->
      <<"o", "t", "h", "e", "r">>,
    voice |->
      <<"v", "o", "i", "c", "e">>,
    recommendation |->
      <<"r", "e", "c", "o", "m", "m", "e", "n", "d", "a", "t", "i", "o", "n">>,
    VoiceTask |->
      <<"V", "o", "i", "c", "e", " ", "T", "a", "s", "k">>,
    FocusTitle |->
      <<"F", "o", "c", "u", "s", " ", "T", "i", "m", "e", " ", "O", "p", "t", "i", "m", "i",
      "z", "a", "t", "i", "o", "n">>,
    FocusDescription |->
      <<"C", "o", "n", "s", "i", "d", "e", "r", " ", "b", "l", "o", "c", "k", "i", "n", "g",
      " ", "d", "e", "d", "i", "c", "a", "t", "e", "d", " ", "f", "o", "c", "u", "s", " ", "t",
      "i", "m", "e", " ", "f", "o", "r", " ", "c", "o", "m", "p", "l", "e", "x", " ", "t", "a",
      "s", "k", "s">> ]

urgentKeywords ==
  << <<"u", "r", "g", "e", "n", "t">>,
     <<"a", "s", "a", "p">>,
     <<"i", "m", "m", "e", "d", "i", "a", "t", "e", "l", "y">>,
     <<"c", "r", "i", "t", "i", "c", "a", "l">>,
     <<"e", "m", "e", "r", "g", "e", "n", "c", "y">>,
     <<"d", "e", "a", "d", "l", "i", "n", "e">> >>

complexKeywords ==
  << <<"r", "e", "f", "a", "c", "t", "o", "r">>,
     <<"a", "r", "c", "h", "i", "t", "e", "c", "t", "u", "r", "e">>,
     <<"d", "e", "s", "i", "g", "n">>,
     <<"r", "e", "s", "e", "a", "r", "c", "h">>,
     <<"a", "n", "a", "l", "y", "s", "i", "s">>,
     <<"i", "n", "t", "e", "g", "r", "a", "t", "i", "o", "n">> >>

stopWords ==
  << <<"t", "h", "e">>, <<"a", "n", "d">>, <<"b", "u", "t">>, <<"f", "o", "r">>,
     <<"a", "r", "e">>, <<"y", "o", "u">>, <<"a", "l", "l">>, <<"c", "a", "n">>,
     <<"h", "a", "d">>, <<"h", "e", "r">>, <<"w", "a", "s">>, <<"o", "n", "e">>,
     <<"o", "u", "r">>, <<"o", "u", "t">>, <<"d", "a", "y">>, <<"g", "e", "t">>,
     <<"h", "a", "s">>, <<"h", "i", "m">>, <<"h", "i", "s">>, <<"h", "o", "w">>,
     <<"i", "t", "s">>, <<"m", "a", "y">>, <<"n", "e", "w">>, <<"n", "o", "w">>,
     <<"o", "l", "d">>, <<"s", "e", "e">>, <<"t", "w", "o">>, <<"w", "a", "y">>,
     <<"w", "h", "o">>, <<"b", "o", "y">>, <<"d", "i", "d">>, <<"m", "a", "n">>,
     <<"u", "s", "e">>, <<"w", "h", "a", "t">>, <<"w", "i", "t", "h">>, <<"h", "a", "v", "e">>,
     <<"f", "r", "o", "m">>, <<"t", "h", "e", "y">>, <<"k", "n", "o", "w">>, <<"w", "a", "n", "t">>,
     <<"b", "e", "e", "n">>, <<"g", "o", "o", "d">>, <<"m", "u", "c", "h">>, <<"s", "o", "m", "e">>,
     <<"t", "i", "m", "e">>, <<"v", "e", "r", "y">>, <<"w", "h", "e", "n">>, <<"c", "o", "m", "e">>,
     <<"h", "e", "r", "e">>, <<"j", "u", "s", "t">>, <<"l", "i", "k", "e">>, <<"l", "o", "n", "g">>,
     <<"m", "a", "k", "e">>, <<"m", "a", "n", "y">>, <<"o", "v", "e", "r">>, <<"s", "u", "c", "h">>,
     <<"t", "a", "k", "e">>, <<"t", "h", "a", "n">>, <<"t", "h", "e", "m">>, <<"w", "e", "l", "l">>,
     <<"w", "e", "r", "e">> >>

defaultSuggestions ==
  << <<"R", "e", "v", "i", "e", "w", " ", "a", "n", "d", " ", "u", "p", "d", "a", "t", "e", " ", "p", "r", "o", "j", "e", "c", "t", " ", "d", "o", "c", "u", "m", "e", "n", "t", "a", "t", "i", "o", "n">>,
     <<"S", "c", "h", "e", "d", "u", "l", "e", " ", "w", "e", "e", "k", "l", "y", " ", "t", "e", "a", "m", " ", "c", "h", "e", "c", "k", "-", "i", "n", " ", "m", "e", "e", "t", "i", "n", "g">>,
     <<"C", "o", "n", "d", "u", "c", "t", " ", "c", "o", "d", "e", " ", "r", "e", "v", "i", "e", "w", " ", "f", "o", "r", " ", "r", "e", "c", "e", "n", "t", " ", "c", "h", "a", "n", "g", "e", "s">>,
     <<"P", "l", "a", "n", " ", "n", "e", "x", "t", " ", "s", "p", "r", "i", "n", "t", " ", "a", "c", "t", "i", "v", "i", "t", "i", "e", "s", " ", "a", "n", "d", " ", "p", "r", "i", "o", "r", "i", "t",
  "i", "e", "s">>,
     <<"U", "p", "d", "a", "t", "e", " ", "t", "a", "s", "k", " ", "d", "e", "p", "e", "n", "d", "e", "n", "c", "i", "e", "s", " ", "a", "n", "d", " ", "b", "l", "o", "c", "k", "e", "r", "s">> >>

focusSuggestions ==
  << <<"B", "l", "o", "c", "k", " ", "2", "-", "h", "o", "u", "r", " ", "f", "o", "c", "u", "s", " ", "s", "e", "s", "s", "i", "o", "n", "s">>,
     <<"T", "u", "r", "n", " ", "o", "f", "f", " ", "n", "o", "t", "i", "f", "i", "c", "a", "t", "i", "o", "n", "s", " ", "d", "u", "r", "i", "n", "g", " ", "d", "e", "e", "p", " ", "w", "o", "r", "k">> >>

analysisKeyPrefix ==
  <<"t", "a", "s", "k", "_", "a", "n", "a", "l", "y", "s", "i", "s", ":">>

suggestionsKeyPrefix ==
  <<"t", "a", "s", "k", "_", "s", "u", "g", "g", "e", "s", "t", "i", "o", "n", "s", ":">>

(***************************************************************************)
(* Helpers of the service                                                  *)
(***************************************************************************)

\* Array.prototype.some(keyword => text.includes(keyword)).
someIncluded(keywords, text) ==
  \E i \in 1..Len(keywords) : includes(text, keywords[i])

\* The stop-word test of extractKeywords: /^(the|and|...)$/i.test(word).
IsStopWord(word) ==
  LET lower == toLowerCase(word)
  IN \E i \in 1..Len(stopWords) : lower = stopWords[i]

RECURSIVE filterStopWords(_)
filterStopWords(words) ==
  IF words = <<>> THEN <<>>
  ELSE IF IsStopWord(Head(words)) THEN filterStopWords(Tail(words))
       ELSE <<Head(words)>> \o filterStopWords(Tail(words))

\* extractKeywords(text): the first five distinct words longer than three
\* characters that are no stop words.
extractKeywords(text) ==
  slice(dedupe(filterStopWords(filterLonger(splitWhitespace(text), 3)), <<>>), 5)

\* The strings of a list as an array value.
StrArray(strs) ==
  VArr([i \in 1..Len(strs) |-> VStr(strs[i])])

\* A TaskAnalysis object literal, its properties in the order the source
\* writes them.
TaskAnalysis(priority, estimatedHours, complexity, sentiment, tags, deadlineUrgency, suggestedSubtasks, optimalTimeSlot, confidenceScore) ==
  VObj(<< [key |-> K.priority, val |-> priority],
          [key |-> K.estimatedHours, val |-> estimatedHours],
          [key |-> K.complexity, val |-> complexity],
          [key |-> K.sentiment, val |-> sentiment],
          [key |-> K.tags, val |-> tags],
          [key |-> K.deadlineUrgency, val |-> deadlineUrgency],
          [key |-> K.suggestedSubtasks, val |-> suggestedSubtasks],
          [key |-> K.optimalTimeSlot, val |-> optimalTimeSlot],
          [key |-> K.confidenceScore, val |-> confidenceScore] >>)

\* The heuristic analysis on the text as given, capitals kept.
fallbackAnalysisCaseSensitive(title, description) ==
  LET text == title \o <<" ">> \o description
      isUrgent == someIncluded(urgentKeywords, text)
      isComplex == someIncluded(complexKeywords, text)
  IN TaskAnalysis(
       VNum(IF isUrgent THEN U(8) ELSE IF isComplex THEN U(6) ELSE U(4)),
       VNum(IF isComplex THEN U(6) ELSE U(2)),
       VStr(IF isComplex THEN S.high ELSE S.medium),
       VStr(S.neutral),
       StrArray(extractKeywords(text)),
       VNum(IF isUrgent THEN U(9) ELSE U(5)),
       VArr(<<>>),
       VStr(S.flexible),
       VNum(U(70)))

\* fallbackAnalysis(title, description): the heuristic analysis.
fallbackAnalysis(title, description) ==
  LET text == toLowerCase(title \o <<" ">> \o description)
      isUrgent == someIncluded(urgentKeywords, text)
      isComplex == someIncluded(complexKeywords, text)
  IN TaskAnalysis(
       VNum(IF isUrgent THEN U(8) ELSE IF isComplex THEN U(6) ELSE U(4)),
       VNum(IF isComplex THEN U(6) ELSE U(2)),
       VStr(IF isComplex THEN S.high ELSE S.medium),
       VStr(S.neutral),
       StrArray(extractKeywords(text)),
       VNum(IF isUrgent THEN U(9) ELSE U(5)),
       VArr(<<>>),
       VStr(S.flexible),
       VNum(U(70)))

\* validateRange without its lower bound: a value below min is kept.
validateRangeNoLowerBound(value, min, max, defaultValue) ==
  LET num == ToNumber(value)
  IN IF num.nan \/ num.n > max THEN defaultValue
     ELSE MathRound(num.n * 10, Unit) * (Unit \div 10)

\* validateRange(value, min, max, defaultValue); min, max, defaultValue and
\* the result in hundredths.
validateRange(value, min, max, defaultValue) ==
  LET num == ToNumber(value)
  IN IF num.nan \/ num.n < min \/ num.n > max THEN defaultValue
     ELSE MathRound(num.n * 10, Unit) * (Unit \div 10)

\* validateComplexity(value).
validateComplexity(value) ==
  IF value.k = "string" /\ value.s \in {S.low, S.medium, S.high} THEN value ELSE VStr(S.medium)

\* validateTimeSlot(value).
validateTimeSlot(value) ==
  IF value.k = "string" /\ value.s \in {S.morning, S.afternoon, S.evening, S.flexible}
    THEN value ELSE VStr(S.flexible)

\* Whether new Date(str) is a valid date, for the strings of the form
\* YYYY-MM-DD; any other string counts as no date.
IsDateString(str) ==
  /\ Len(str) = 10
  /\ \A i \in {1, 2, 3, 4, 6, 7, 9, 10} : IsDigit(str[i])
  /\ str[5] = "-" /\ str[8] = "-"
  /\ CharsToNat(SubSeq(str, 6, 7)) \in 1..12
  /\ CharsToNat(SubSeq(str, 9, 10)) \in 1..31

\* validateDate(dateString).
validateDate(dateString) ==
  IF Falsy(dateString) THEN VNull
  ELSE IF dateString.k = "number" THEN dateString
  ELSE IF dateString.k = "string" /\ IsDateString(dateString.s) THEN dateString
  ELSE VNull

\* The confidence score without its clamp to [60,99].
calculateConfidenceScoreUnclamped(analysis) ==
  85 - (IF Falsy(Get(analysis, K.priority)) THEN 10 ELSE 0)
     - (IF Falsy(Get(analysis, K.estimatedHours)) THEN 10 ELSE 0)
     - (IF ~ArrayIsArray(Get(analysis, K.tags)) \/ Len(Get(analysis, K.tags).a) = 0 THEN 5 ELSE 0)
     - (IF ~ArrayIsArray(Get(analysis, K.suggestedSubtasks)) THEN 5 ELSE 0)

\* calculateConfidenceScore(analysis), in units.
calculateConfidenceScore(analysis) ==
  LET s0 == 85
      s1 == IF Falsy(Get(analysis, K.priority)) THEN s0 - 10 ELSE s0
      s2 == IF Falsy(Get(analysis, K.estimatedHours)) THEN s1 - 10 ELSE s1
      s3 == IF ~ArrayIsArray(Get(analysis, K.tags)) \/ Len(Get(analysis, K.tags).a) = 0
              THEN s2 - 5 ELSE s2
      s4 == IF ~ArrayIsArray(Get(analysis, K.suggestedSubtasks)) THEN s3 - 5 ELSE s3
  IN Max(Min(s4, 99), 60)

\* The AFINN scores of the words the texts of the model use (the vocabulary
\* of the analyzer the service constructs), 0 for any other word.
AfinnScore(word) ==
  CASE word = <<"g", "o", "o", "d">> -> 3
    [] word = <<"l", "o", "v", "e">> -> 3
    [] word = <<"b", "a", "d">> -> 0 - 3
    [] word = <<"h", "a", "t", "e">> -> 0 - 3
    [] OTHER -> 0

\* PorterStemmer.stem on the words the texts of the model use: step 1a, which
\* drops a plural s (sses -> ss, ies -> i, s ->); the later steps leave these
\* words as they are.
stem(word) ==
  LET n == Len(word)
  IN IF n >= 4 /\ SubSeq(word, n - 3, n) = <<"s", "s", "e", "s">> THEN SubSeq(word, 1, n - 2)
     ELSE IF n >= 3 /\ SubSeq(word, n - 2, n) = <<"i", "e", "s">> THEN SubSeq(word, 1, n - 2)
     ELSE IF n >= 2 /\ SubSeq(word, n - 1, n) = <<"s", "s">> THEN word
     ELSE IF n >= 1 /\ word[n] = "s" THEN SubSeq(word, 1, n - 1)
     ELSE word

RECURSIVE SumScores(_)
SumScores(tokens) ==
  IF tokens = <<>> THEN 0
  ELSE AfinnScore(stem(Head(tokens))) + SumScores(Tail(tokens))

\* tokenizer.tokenize(text): the maximal runs of word characters.
tokenize(text) ==
  filterLonger(SplitRuns(text, 1, <<>>, <<>>, TRUE), 0)

\* analyzeSentiment(text): the mean AFINN score of the stemmed tokens, in
\* hundredths; 0 when there is no token.
analyzeSentiment(text) ==
  LET tokens == tokenize(toLowerCase(text))
  IN IF Len(tokens) = 0 THEN 0
     ELSE (SumScores(tokens) * Unit) \div Len(tokens)

\* The sentiment property of a fresh analysis.
sentimentLabel(sentimentScore) ==
  IF sentimentScore > 0 THEN S.positive
  ELSE IF sentimentScore < 0 THEN S.negative
  ELSE S.neutral

\* The character of the base64 alphabet with index i.
Base64Char(i) ==
  IF i < 26 THEN FromCharCode(65 + i)
  ELSE IF i < 52 THEN FromCharCode(97 + (i - 26))
  ELSE IF i < 62 THEN FromCharCode(48 + (i - 52))
  ELSE IF i = 62 THEN "+" ELSE "/"

\* Buffer.from(str).toString('base64'): three bytes to four characters, the
\* last group padded with =.
RECURSIVE Base64(_)
Base64(str) ==
  IF Len(str) = 0 THEN <<>>
  ELSE IF Len(str) = 1
    THEN LET b == CharCode(str[1]) * 16
         IN <<Base64Char(b \div 64), Base64Char(b % 64), "=", "=">>
  ELSE IF Len(str) = 2
    THEN LET b == (CharCode(str[1]) * 256 + CharCode(str[2])) * 4
         IN <<Base64Char(b \div 4096), Base64Char((b \div 64) % 64), Base64Char(b % 64), "=">>
  ELSE LET b == CharCode(str[1]) * 65536 + CharCode(str[2]) * 256 + CharCode(str[3])
       IN <<Base64Char(b \div 262144), Base64Char((b \div 4096) % 64),
            Base64Char((b \div 64) % 64), Base64Char(b % 64)>>
          \o Base64(SubSeq(str, 4, Len(str)))

\* The key with a separator between title and description.
analysisCacheKeySeparated(title, description) ==
  analysisKeyPrefix \o Base64(title \o <<":">> \o description)

\* The cache key of analyzeTask.
analysisCacheKey(title, description) ==
  analysisKeyPrefix \o Base64(title \o description)

\* The cache key of generateTaskSuggestions.
suggestionsCacheKey(userId, context) ==
  suggestionsKeyPrefix \o userId \o <<":">> \o Base64(context)

\* aiResponse.match(/\{[\s\S]*\}/): the tokens from the first opening brace
\* to the last closing brace after it; [found, text].
jsonMatch(aiResponse) ==
  LET opens == {i \in 1..Len(aiResponse) : aiResponse[i].t = "{"}
      first == CHOOSE i \in opens : \A j \in opens : i <= j
      closes == {i \in 1..Len(aiResponse) : aiResponse[i].t = "}" /\ i > first}
      last == CHOOSE i \in closes : \A j \in closes : j <= i
  IN IF opens = {} \/ closes = {} THEN [found |-> FALSE, text |-> <<>>]
     ELSE [found |-> TRUE, text |-> SubSeq(aiResponse, first, last)]

\* The TaskAnalysis with the sentiment of the reply, when it has one.
finalAnalysisReplySentiment(analysis, description) ==
  TaskAnalysis(
    VNum(validateRange(Get(analysis, K.priority), U(1), U(10), U(5))),
    VNum(validateRange(Get(analysis, K.estimatedHours), U(1) \div 2, U(40), U(2))),
    validateComplexity(Get(analysis, K.complexity)),
    IF Get(analysis, K.sentiment).k = "string" THEN Get(analysis, K.sentiment)
      ELSE VStr(sentimentLabel(analyzeSentiment(description))),
    IF ArrayIsArray(Get(analysis, K.tags))
      THEN VArr(slice(Get(analysis, K.tags).a, 8)) ELSE VArr(<<>>),
    VNum(validateRange(Get(analysis, K.deadlineUrgency), U(1), U(10), U(5))),
    IF ArrayIsArray(Get(analysis, K.suggestedSubtasks))
      THEN VArr(slice(Get(analysis, K.suggestedSubtasks).a, 5)) ELSE VArr(<<>>),
    validateTimeSlot(Get(analysis, K.optimalTimeSlot)),
    VNum(U(calculateConfidenceScore(analysis))))

\* The TaskAnalysis analyzeTask builds from the parsed reply and the
\* description.
finalAnalysis(analysis, description) ==
  TaskAnalysis(
    VNum(validateRange(Get(analysis, K.priority), U(1), U(10), U(5))),
    VNum(validateRange(Get(analysis, K.estimatedHours), U(1) \div 2, U(40), U(2))),
    validateComplexity(Get(analysis, K.complexity)),
    VStr(sentimentLabel(analyzeSentiment(description))),
    IF ArrayIsArray(Get(analysis, K.tags))
      THEN VArr(slice(Get(analysis, K.tags).a, 8)) ELSE VArr(<<>>),
    VNum(validateRange(Get(analysis, K.deadlineUrgency), U(1), U(10), U(5))),
    IF ArrayIsArray(Get(analysis, K.suggestedSubtasks))
      THEN VArr(slice(Get(analysis, K.suggestedSubtasks).a, 5)) ELSE VArr(<<>>),
    validateTimeSlot(Get(analysis, K.optimalTimeSlot)),
    VNum(U(calculateConfidenceScore(analysis))))

\* getDefaultSuggestions().
getDefaultSuggestions ==
  StrArray(defaultSuggestions)

\* getDefaultInsights().
getDefaultInsights ==
  VArr(<< VObj(<< [key |-> K.type, val |-> VStr(S.recommendation)],
                  [key |-> K.title, val |-> VStr(S.FocusTitle)],
                  [key |-> K.description, val |-> VStr(S.FocusDescription)],
                  [key |-> K.impact, val |-> VStr(S.medium)],
                  [key |-> K.actionable, val |-> VBool(TRUE)],
                  [key |-> K.suggestions, val |-> StrArray(focusSuggestions)] >>) >>)

\* value || fallback.
OrElse(value, fallback) ==
  IF Falsy(value) THEN fallback ELSE value

\* The task draft parseVoiceToTask builds from the parsed reply.
voiceTask(taskData, transcription) ==
  VObj(<< [key |-> K.title, val |-> OrElse(Get(taskData, K.title), VStr(S.VoiceTask))],
          [key |-> K.description, val |-> OrElse(Get(taskData, K.description), VStr(transcription))],
          [key |-> K.priority,
           val |-> VNum(validateRange(Get(taskData, K.priority), U(1), U(10), U(5)))],
          [key |-> K.estimatedHours,
           val |-> VNum(validateRange(Get(taskData, K.estimatedHours), U(1) \div 2, U(20), U(1)))],
          [key |-> K.dueDate, val |-> validateDate(Get(taskData, K.dueDate))],
          [key |-> K.tags,
           val |-> IF ArrayIsArray(Get(taskData, K.tags))
                     THEN VArr(slice(Get(taskData, K.tags).a, 5))
                     ELSE StrArray(<<S.voice>>)],
          [key |-> K.category, val |-> OrElse(Get(taskData, K.category), VStr(S.other))] >>)

(***************************************************************************)
(* Inputs                                                                  *)
(***************************************************************************)

T_Fix ==
  <<"F", "i", "x">>

D_good ==
  <<"g", "o", "o", "d">>

T_Fi ==
  <<"F", "i">>

D_xgood ==
  <<"x", "g", "o", "o", "d">>

T_DesignASAP ==
  <<"D", "e", "s", "i", "g", "n", " ", "A", "S", "A", "P">>

D_badbugs ==
  <<"b", "a", "d", " ", "b", "u", "g", "s">>

\* The (title, description) pairs analyzeTask is called with: two whose
\* concatenations are equal, and one with an urgency keyword, a complexity
\* keyword and a negative word.
AnalyzeInputs ==
  { <<T_Fix, D_good>>, <<T_Fi, D_xgood>>, <<T_DesignASAP, D_badbugs>> }

\* The (userId, context) pairs and the limits generateTaskSuggestions is
\* called with.
SuggestInputs ==
  { << <<"u", "1">>, <<"p", "l", "a", "n">> >> }

Limits ==
  {2, 5}

\* The transcriptions parseVoiceToTask is called with.
Transcriptions ==
  { <<"c", "a", "l", "l", " ", "B", "o", "b">> }

\* Token sequences in JSON syntax, from their parts.
RECURSIVE Joined(_)
Joined(parts) ==
  IF parts = <<>> THEN <<>>
  ELSE IF Len(parts) = 1 THEN parts[1]
  ELSE parts[1] \o <<Tok(",")>> \o Joined(Tail(parts))

ObjText(members) ==
  <<Tok("{")>> \o Joined(members) \o <<Tok("}")>>

ArrText(elems) ==
  <<Tok("[")>> \o Joined(elems) \o <<Tok("]")>>

Member(key, text) ==
  <<TStr(key), Tok(":")>> \o text

NumText(digits) ==
  <<TNum(digits)>>

StrText(str) ==
  <<TStr(str)>>

\* A remote outcome: the call raises, or resolves with a content (the empty
\* content stands for a missing one).
RemoteRaises ==
  [kind |-> "raise", text |-> <<>>]

Content(text) ==
  [kind |-> "content", text |-> text]

\* A complete reply inside prose: every field present and in range, and a
\* sentiment of the remote model's own.
replyFull ==
  <<TWord(<<"S", "u", "r", "e">>)>>
  \o ObjText(<< Member(K.priority, NumText(<<"7", ".", "4", "6">>)),
                Member(K.estimatedHours, NumText(<<"2", ".", "5">>)),
                Member(K.complexity, StrText(S.high)),
                Member(K.sentiment, StrText(S.negative)),
                Member(K.tags, ArrText(<<StrText(<<"a">>), StrText(<<"b">>)>>)),
                Member(K.deadlineUrgency, NumText(<<"1", "0">>)),
                Member(K.suggestedSubtasks, ArrText(<<StrText(<<"s">>)>>)),
                Member(K.optimalTimeSlot, StrText(S.morning)) >>)
  \o <<TWord(<<"D", "o", "n", "e">>)>>

\* A reply whose fields are falsy, of the wrong type, out of range or absent.
replyPartial ==
  ObjText(<< Member(K.priority, NumText(<<"0">>)),
             Member(K.estimatedHours, StrText(<<"x">>)),
             Member(K.complexity, NumText(<<"5">>)),
             Member(K.tags, ArrText(<<>>)),
             Member(K.deadlineUrgency, NumText(<<"1", "0", ".", "0", "4">>)),
             Member(K.optimalTimeSlot, <<Tok("null")>>) >>)

\* A reply with values at the edges of the ranges, numbers as strings and in
\* arrays, arrays longer than the limits and elements that are no strings.
replyMessy ==
  ObjText(<< Member(K.priority, StrText(<<"9", ".", "9", "6">>)),
             Member(K.estimatedHours, NumText(<<"4", "0", ".", "0", "4">>)),
             Member(K.complexity, StrText(<<"H", "I", "G", "H">>)),
             Member(K.tags, ArrText(<< NumText(<<"1">>), <<Tok("null")>>, ObjText(<<>>),
                                       StrText(<<"a">>), StrText(<<"b">>), StrText(<<"c">>),
                                       StrText(<<"d">>), StrText(<<"e">>), StrText(<<"f">>) >>)),
             Member(K.deadlineUrgency, ArrText(<<NumText(<<"7">>)>>)),
             Member(K.suggestedSubtasks,
                    ArrText(<< StrText(<<"1">>), StrText(<<"2">>), StrText(<<"3">>),
                               StrText(<<"4">>), StrText(<<"5">>), StrText(<<"6">>) >>)),
             Member(K.optimalTimeSlot, StrText(S.evening)),
             Member(K.priority, StrText(<<"9", ".", "9", "6">>)) >>)

\* A reply with truthy values of other types.
replyEdge ==
  ObjText(<< Member(K.priority, <<Tok("true")>>),
             Member(K.estimatedHours, NumText(<<"0", ".", "5", "4">>)),
             Member(K.complexity, StrText(S.low)),
             Member(K.tags, StrText(<<"a">>)),
             Member(K.deadlineUrgency, StrText(<<>>)),
             Member(K.suggestedSubtasks, ObjText(<<>>)) >>)

\* Two JSON objects with prose between them.
replyTwo ==
  ObjText(<<Member(K.priority, NumText(<<"3">>))>>)
  \o <<TWord(<<"o", "r">>)>>
  \o ObjText(<<Member(K.priority, NumText(<<"4">>))>>)

\* Prose without any brace.
replyNoJson ==
  <<TWord(<<"S", "o", "r", "r", "y">>)>>

\* Braces around text that is no JSON.
replyBadJson ==
  <<Tok("{"), TWord(<<"p", "r", "i", "o", "r", "i", "t", "y">>), Tok("}")>>

\* The outcomes of the remote call of analyzeTask.
AnalyzeReplies ==
  { RemoteRaises, Content(<<>>), Content(replyFull), Content(replyPartial),
    Content(replyMessy), Content(replyEdge), Content(replyTwo),
    Content(replyNoJson), Content(replyBadJson) }

\* The outcomes of the remote call of generateTaskSuggestions: arrays of
\* three and of six strings, valid JSON that is no array, and no JSON.
SuggestReplies ==
  { RemoteRaises, Content(<<>>),
    Content(ArrText(<<StrText(<<"1">>), StrText(<<"2">>), StrText(<<"3">>)>>)),
    Content(ArrText(<< StrText(<<"1">>), StrText(<<"2">>), StrText(<<"3">>),
                       StrText(<<"4">>), StrText(<<"5">>), StrText(<<"6">>) >>)),
    Content(<<Tok("null")>>),
    Content(ObjText(<<Member(K.title, StrText(<<"a">>))>>)),
    Content(replyNoJson) }

\* The outcomes of the remote call of generateProductivityInsights.
InsightReplies ==
  { RemoteRaises, Content(<<>>),
    Content(ArrText(<<ObjText(<<Member(K.type, StrText(<<"w", "a", "r", "n", "i", "n", "g">>))>>)>>)),
    Content(ObjText(<<Member(K.title, StrText(<<"a">>))>>)),
    Content(replyNoJson) }

\* The outcomes of the remote call of parseVoiceToTask.
VoiceReplies ==
  { RemoteRaises, Content(<<>>), Content(<<Tok("null")>>),
    Content(ObjText(<< Member(K.title, StrText(<<"C", "a", "l", "l">>)),
                       Member(K.priority, NumText(<<"1", "1">>)),
                       Member(K.dueDate, StrText(<<"2", "0", "2", "6", "-", "0", "1", "-", "1", "5">>)),
                       Member(K.tags, ArrText(<<StrText(<<"a">>)>>)) >>)),
    Content(replyNoJson) }

(***************************************************************************)
(* State                                                                   *)
(***************************************************************************)

\* The concurrent invocations of the concurrent specification.
NProc ==
  2

\* The seconds one step of the clock advances.
TickSeconds ==
  1800

\* The time to live of a cached analysis and of cached suggestions.
AnalysisTtl ==
  3600

SuggestionsTtl ==
  1800

VARIABLES
  isInitialized,  \* AIService.isInitialized
  cache,          \* the cache collaborator: key -> [val, ttl, ret]
  slots,          \* the invocations in flight: process -> invocation
  freshRet,       \* history: the analyses computed and returned, per request
  pure            \* the last application of a pure helper: its arguments and result

vars ==
  <<isInitialized, cache, slots, freshRet, pure>>

NoErr ==
  [status |-> 0, message |-> ""]

\* No helper applied yet.
NoPure ==
  [fn |-> "none", value |-> VUndef, min |-> 0, max |-> 0, defaultValue |-> 0,
   text |-> <<>>, out |-> VUndef]

\* An invocation.  pc: the await it is suspended at (get, remote, setex), or
\* idle (no invocation), or done (settled).  op, a1, a2, opt, limit: the
\* method and its arguments (title and description; userId and context;
\* transcription; whether the context or the circular user data is given).
\* key, pend: the locals cacheKey and finalAnalysis / suggestions.  reply:
\* the remote outcome received.  out, val, err: how the invocation settled.
\* path, held, heldRet, prior, remote, wrote: history (the return statement
\* taken; the cache value under the key when the pipeline looked or would
\* have looked, and the value its writer returned; the analyses earlier
\* invocations of the same request had computed and returned when this one
\* was called; the remote calls made and the cache writes performed).
Idle ==
  [pc |-> "idle", op |-> "none", a1 |-> <<>>, a2 |-> <<>>, opt |-> FALSE, limit |-> 0,
   key |-> <<>>, pend |-> VUndef, reply |-> [kind |-> "none", text |-> <<>>],
   out |-> "none", val |-> VUndef, err |-> NoErr,
   path |-> "none", held |-> <<>>, heldRet |-> VUndef, prior |-> {}, remote |-> 0, wrote |-> 0]

\* The value under key, the empty text when there is none.
CacheValue(key) ==
  IF key \in DOMAIN cache THEN cache[key].val ELSE <<>>

\* The value the writer of the entry under key returned.
CacheWriterReturned(key) ==
  IF key \in DOMAIN cache THEN cache[key].ret ELSE VUndef

\* The invocation with the entry under its key noted.
Looking(slot) ==
  [slot EXCEPT !.held = CacheValue(slot.key), !.heldRet = CacheWriterReturned(slot.key)]

\* RedisClient.setex(key, ttl, value) on the cache; ret records the value the
\* writing invocation returns.
CacheSetex(key, ttl, value, ret) ==
  [k \in DOMAIN cache \cup {key} |->
     IF k = key THEN [val |-> value, ttl |-> ttl, ret |-> ret] ELSE cache[k]]

\* The invocation settled by a return or a throw.
Settled(slot, out, val, err, path) ==
  [slot EXCEPT !.pc = "done", !.out = out, !.val = val, !.err = err, !.path = path]

Returned(slot, val, path) ==
  Settled(slot, "returned", val, NoErr, path)

Raised(slot, status, message, path) ==
  Settled(slot, "raised", VUndef, [status |-> status, message |-> message], path)

\* Variants of the handlers below: a catch block that rethrows, a parse catch
\* that falls back on the title alone, a cache hit that validates what it
\* read, and a cache write of another text than the analysis returned.
analyzeTaskCatchRethrows(slot, path) ==
  Raised(slot, 500, "AI task analysis failed", path)

analyzeTaskParseCatchTitleOnly(slot, path) ==
  Returned(slot, fallbackAnalysis(slot.a1, <<>>), path)

analyzeTaskCacheHitValidated(slot, cached) ==
  IF JSONparse(cached).ok
    THEN Returned(slot, finalAnalysis(JSONparse(cached).val, slot.a2), "cached")
    ELSE Returned(slot, fallbackAnalysis(slot.a1, slot.a2), "cachedUnparsable")

analyzeTaskCacheTextOfFallback(slot) ==
  JSONstringify(fallbackAnalysis(slot.a1, slot.a2))

\* The catch blocks of the four methods, and the inner one of analyzeTask
\* around the extraction and parsing of the reply.
analyzeTaskCatch(slot, path) ==
  Returned(slot, fallbackAnalysis(slot.a1, slot.a2), path)

analyzeTaskParseCatch(slot, path) ==
  Returned(slot, fallbackAnalysis(slot.a1, slot.a2), path)

\* analyzeTask on a cache hit: the cached text parsed and returned.
analyzeTaskCacheHit(slot, cached) ==
  IF JSONparse(cached).ok
    THEN Returned(slot, JSONparse(cached).val, "cached")
    ELSE analyzeTaskCatch(slot, "cachedUnparsable")

\* The text analyzeTask stores in the cache.
analyzeTaskCacheText(slot) ==
  JSONstringify(slot.pend)

suggestionsCatch(slot, path) ==
  Returned(slot, getDefaultSuggestions, path)

insightsCatch(slot, path) ==
  Returned(slot, getDefaultInsights, path)

voiceCatch(slot, path) ==
  Raised(slot, 500, "Failed to process voice input", path)

(***************************************************************************)
(* The service's life                                                      *)
(***************************************************************************)

\* AIService.initialize(): with an API key the service becomes initialized,
\* without one it stays disabled.
Initialize(hasKey) ==
  /\ ~isInitialized
  /\ isInitialized' = hasKey
  /\ UNCHANGED <<cache, slots, freshRet, pure>>

\* The process exits (graceful shutdown, no request in flight) and starts
\* anew: the static fields are those of a fresh process, the cache is kept by
\* its server.
Shutdown ==
  /\ isInitialized
  /\ \A p \in DOMAIN slots : slots[p].pc = "idle"
  /\ isInitialized' = FALSE
  /\ UNCHANGED <<cache, slots, freshRet, pure>>

\* TickSeconds pass: every entry's time to live shrinks, and the entries that
\* reach zero expire.  The history follows: an analysis whose own hour has
\* passed is no longer one a later invocation is compared with.
Tick ==
  LET live == {k \in DOMAIN cache : cache[k].ttl > TickSeconds}
      fresh == {[r EXCEPT !.ttl = @ - TickSeconds] : r \in {q \in freshRet : q.ttl > TickSeconds}}
  IN /\ DOMAIN cache # {}
     /\ cache' = [k \in live |-> [cache[k] EXCEPT !.ttl = @ - TickSeconds]]
     /\ freshRet' = fresh
     /\ slots' = [p \in DOMAIN slots |->
                    IF slots[p].op = "analyzeTask" /\ slots[p].pc \in {"get", "remote", "setex"}
                      THEN [slots[p] EXCEPT !.prior = @ \cap
                              {r.val : r \in {q \in fresh : q.title = slots[p].a1
                                                             /\ q.description = slots[p].a2}}]
                      ELSE slots[p]]
     /\ UNCHANGED <<isInitialized, pure>>

\* The caller takes the settled result; the process is free again.
Return(p) ==
  /\ slots[p].pc = "done"
  /\ slots' = [slots EXCEPT ![p] = Idle]
  /\ UNCHANGED <<isInitialized, cache, freshRet, pure>>

(***************************************************************************)
(* analyzeTask                                                             *)
(***************************************************************************)

\* analyzeTask(title, description, context) up to its first await: the
\* initialization check, the cache key, and the cache get issued.
CallAnalyzeTask(p, title, description, hasContext) ==
  /\ slots[p].pc = "idle"
  /\ LET s == [Looking([Idle EXCEPT !.key = analysisCacheKey(title, description)])
                  EXCEPT !.op = "analyzeTask", !.a1 = title, !.a2 = description,
                           !.opt = hasContext,
                           !.prior = {r.val : r \in {q \in freshRet :
                                        q.title = title /\ q.description = description}}]
     IN slots' = [slots EXCEPT ![p] =
                    IF ~isInitialized
                      THEN Returned(s, fallbackAnalysis(title, description), "uninitialized")
                      ELSE [s EXCEPT !.pc = "get"]]
  /\ UNCHANGED <<isInitialized, cache, freshRet, pure>>

\* The cache get with coalescing: on a miss, an invocation reuses the analysis
\* that another invocation of the same key has computed and is about to write.
AnalyzeCacheGetCoalesced(p, raises) ==
  LET s == Looking(slots[p])
      cached == CacheValue(s.key)
      others == {q \in DOMAIN slots \ {p} : slots[q].key = s.key /\ slots[q].pc = "setex"}
  IN /\ s.pc = "get" /\ s.op = "analyzeTask"
     /\ slots' = [slots EXCEPT ![p] =
          IF raises THEN analyzeTaskCatch(s, "getRaised")
          ELSE IF cached # <<>> THEN analyzeTaskCacheHit(s, cached)
          ELSE IF others # {} THEN Returned(s, slots[CHOOSE q \in others : TRUE].pend, "coalesced")
          ELSE [s EXCEPT !.pc = "remote", !.remote = @ + 1]]
     /\ UNCHANGED <<isInitialized, cache, freshRet, pure>>

\* The cache get settles: it raises, or it finds a value (returned parsed), or
\* it finds none (the prompt is built and the remote call issued).
AnalyzeCacheGet(p, raises) ==
  LET s == Looking(slots[p])
      cached == CacheValue(s.key)
  IN /\ s.pc = "get" /\ s.op = "analyzeTask"
     /\ slots' = [slots EXCEPT ![p] =
          IF raises THEN analyzeTaskCatch(s, "getRaised")
          ELSE IF cached # <<>> THEN analyzeTaskCacheHit(s, cached)
          ELSE [s EXCEPT !.pc = "remote", !.remote = @ + 1]]
     /\ UNCHANGED <<isInitialized, cache, freshRet, pure>>

\* The remote call settles: it raises, or its content is empty, or no JSON
\* object is matched or parsed (fallback), or the parsed reply is validated
\* and the cache write issued.
AnalyzeRemote(p, reply) ==
  LET s == [slots[p] EXCEPT !.reply = reply]
      match == jsonMatch(reply.text)
      analysis == JSONparse(match.text)
  IN /\ s.pc = "remote" /\ s.op = "analyzeTask"
     /\ slots' = [slots EXCEPT ![p] =
          IF reply.kind = "raise" THEN analyzeTaskCatch(s, "remoteRaised")
          ELSE IF reply.text = <<>> THEN analyzeTaskCatch(s, "emptyResponse")
          ELSE IF ~match.found THEN analyzeTaskParseCatch(s, "noJson")
          ELSE IF ~analysis.ok THEN analyzeTaskParseCatch(s, "invalidJson")
          ELSE [s EXCEPT !.pc = "setex", !.pend = finalAnalysis(analysis.val, s.a2)]]
     /\ UNCHANGED <<isInitialized, cache, freshRet, pure>>

\* The cache write settles: it raises (nothing is stored), or the analysis is
\* stored for an hour and returned.
AnalyzeCacheSetex(p, raises) ==
  LET s == slots[p]
  IN /\ s.pc = "setex" /\ s.op = "analyzeTask"
     /\ IF raises
          THEN /\ slots' = [slots EXCEPT ![p] = analyzeTaskCatch(s, "setexRaised")]
               /\ UNCHANGED <<cache, freshRet>>
          ELSE /\ cache' = CacheSetex(s.key, AnalysisTtl, analyzeTaskCacheText(s), s.pend)
               /\ slots' = [slots EXCEPT ![p] =
                              Returned([s EXCEPT !.wrote = @ + 1], s.pend, "fresh")]
               /\ freshRet' = freshRet \cup
                                {[title |-> s.a1, description |-> s.a2, val |-> s.pend,
                                  ttl |-> AnalysisTtl]}
     /\ UNCHANGED <<isInitialized, pure>>

(***************************************************************************)
(* generateTaskSuggestions                                                 *)
(***************************************************************************)

\* generateTaskSuggestions(userId, context, limit) up to its first await.
CallSuggestions(p, userId, context, limit) ==
  /\ slots[p].pc = "idle"
  /\ LET s == [Looking([Idle EXCEPT !.key = suggestionsCacheKey(userId, context)])
                  EXCEPT !.op = "generateTaskSuggestions", !.a1 = userId, !.a2 = context,
                         !.limit = limit]
     IN slots' = [slots EXCEPT ![p] =
                    IF ~isInitialized THEN Returned(s, getDefaultSuggestions, "uninitialized")
                    ELSE [s EXCEPT !.pc = "get"]]
  /\ UNCHANGED <<isInitialized, cache, freshRet, pure>>

\* The cache get settles: a value found is returned parsed, as it is.
SuggestCacheGet(p, raises) ==
  LET s == Looking(slots[p])
      cached == CacheValue(s.key)
  IN /\ s.pc = "get" /\ s.op = "generateTaskSuggestions"
     /\ slots' = [slots EXCEPT ![p] =
          IF raises THEN suggestionsCatch(s, "getRaised")
          ELSE IF cached # <<>>
            THEN IF JSONparse(cached).ok
                   THEN Returned(s, JSONparse(cached).val, "cached")
                   ELSE suggestionsCatch(s, "cachedUnparsable")
          ELSE [s EXCEPT !.pc = "remote", !.remote = @ + 1]]
     /\ UNCHANGED <<isInitialized, cache, freshRet, pure>>

\* The text JSON.parse is given: content || fallback.
ContentOr(reply, fallback) ==
  IF reply.text = <<>> THEN fallback ELSE reply.text

\* The remote call settles: the content (or '[]') is parsed and the cache
\* write issued, whatever JSON value it is.
SuggestRemote(p, reply) ==
  LET s == [slots[p] EXCEPT !.reply = reply]
      suggestions == JSONparse(ContentOr(reply, <<Tok("["), Tok("]")>>))
  IN /\ s.pc = "remote" /\ s.op = "generateTaskSuggestions"
     /\ slots' = [slots EXCEPT ![p] =
          IF reply.kind = "raise" THEN suggestionsCatch(s, "remoteRaised")
          ELSE IF ~suggestions.ok THEN suggestionsCatch(s, "invalidJson")
          ELSE [s EXCEPT !.pc = "setex", !.pend = suggestions.val]]
     /\ UNCHANGED <<isInitialized, cache, freshRet, pure>>

\* What generateTaskSuggestions returns after the cache write.
suggestionsResult(suggestions, limit) ==
  IF ArrayIsArray(suggestions) THEN VArr(slice(suggestions.a, limit)) ELSE getDefaultSuggestions

\* The cache write settles: it raises, or the parsed value is stored for half
\* an hour and its first limit elements (the defaults when it is no array)
\* are returned.
SuggestCacheSetex(p, raises) ==
  LET s == slots[p]
  IN /\ s.pc = "setex" /\ s.op = "generateTaskSuggestions"
     /\ IF raises
          THEN /\ slots' = [slots EXCEPT ![p] = suggestionsCatch(s, "setexRaised")]
               /\ UNCHANGED cache
          ELSE /\ cache' = CacheSetex(s.key, SuggestionsTtl, JSONstringify(s.pend),
                                      suggestionsResult(s.pend, s.limit))
               /\ slots' = [slots EXCEPT ![p] =
                              Returned([s EXCEPT !.wrote = @ + 1],
                                       suggestionsResult(s.pend, s.limit), "fresh")]
     /\ UNCHANGED <<isInitialized, freshRet, pure>>

(***************************************************************************)
(* generateProductivityInsights                                            *)
(***************************************************************************)

\* generateProductivityInsights(userData) up to its await: the prompt prints
\* the user data, which throws when they are circular.
CallInsights(p, circular) ==
  /\ slots[p].pc = "idle"
  /\ LET s == [Idle EXCEPT !.op = "generateProductivityInsights", !.opt = circular]
     IN slots' = [slots EXCEPT ![p] =
                    IF ~isInitialized THEN Returned(s, getDefaultInsights, "uninitialized")
                    ELSE IF circular THEN insightsCatch(s, "promptRaised")
                    ELSE [s EXCEPT !.pc = "remote", !.remote = @ + 1]]
  /\ UNCHANGED <<isInitialized, cache, freshRet, pure>>

\* The remote call settles: an array is returned as it is, any other JSON
\* value and any failure give the default insights.
InsightsRemote(p, reply) ==
  LET s == [slots[p] EXCEPT !.reply = reply]
      insights == JSONparse(ContentOr(reply, <<Tok("["), Tok("]")>>))
  IN /\ s.pc = "remote" /\ s.op = "generateProductivityInsights"
     /\ slots' = [slots EXCEPT ![p] =
          IF reply.kind = "raise" THEN insightsCatch(s, "remoteRaised")
          ELSE IF ~insights.ok THEN insightsCatch(s, "invalidJson")
          ELSE IF ArrayIsArray(insights.val) THEN Returned(s, insights.val, "fresh")
          ELSE Returned(s, getDefaultInsights, "notArray")]
     /\ UNCHANGED <<isInitialized, cache, freshRet, pure>>

(***************************************************************************)
(* parseVoiceToTask                                                        *)
(***************************************************************************)

\* parseVoiceToTask(transcription) up to its await: uninitialized, the
\* service-unavailable error is thrown inside the try block, whose catch
\* block receives it.
CallVoice(p, transcription) ==
  /\ slots[p].pc = "idle"
  /\ LET s == [Idle EXCEPT !.op = "parseVoiceToTask", !.a1 = transcription]
     IN slots' = [slots EXCEPT ![p] =
                    IF ~isInitialized THEN voiceCatch(s, "uninitialized")
                    ELSE [s EXCEPT !.pc = "remote", !.remote = @ + 1]]
  /\ UNCHANGED <<isInitialized, cache, freshRet, pure>>

\* The remote call settles: the content (or '{}') is parsed and sanitized;
\* reading a property of null throws.
VoiceRemote(p, reply) ==
  LET s == [slots[p] EXCEPT !.reply = reply]
      taskData == JSONparse(ContentOr(reply, <<Tok("{"), Tok("}")>>))
  IN /\ s.pc = "remote" /\ s.op = "parseVoiceToTask"
     /\ slots' = [slots EXCEPT ![p] =
          IF reply.kind = "raise" THEN voiceCatch(s, "remoteRaised")
          ELSE IF ~taskData.ok THEN voiceCatch(s, "invalidJson")
          ELSE IF taskData.val.k = "null" THEN voiceCatch(s, "nullReply")
          ELSE Returned(s, voiceTask(taskData.val, s.a1), "fresh")]
     /\ UNCHANGED <<isInitialized, cache, freshRet, pure>>

(***************************************************************************)
(* Specifications                                                          *)
(***************************************************************************)

\* The processes of the sequential specification (one: the invocations
\* follow one another) and of the concurrent one.
SeqProcs ==
  {1}

ConcProcs ==
  1..NProc

InitSlots(procs) ==
  /\ isInitialized = FALSE
  /\ cache = [k \in {} |-> 0]
  /\ slots = [p \in procs |-> Idle]
  /\ freshRet = {}
  /\ pure = NoPure

Init ==
  InitSlots(SeqProcs)

Next ==
  \/ \E hasKey \in BOOLEAN : Initialize(hasKey)
  \/ Shutdown
  \/ Tick
  \/ \E p \in SeqProcs : Return(p)
  \/ \E p \in SeqProcs, in \in AnalyzeInputs, hasContext \in BOOLEAN :
       CallAnalyzeTask(p, in[1], in[2], hasContext)
  \/ \E p \in SeqProcs, raises \in BOOLEAN : AnalyzeCacheGet(p, raises)
  \/ \E p \in SeqProcs, reply \in AnalyzeReplies : AnalyzeRemote(p, reply)
  \/ \E p \in SeqProcs, raises \in BOOLEAN : AnalyzeCacheSetex(p, raises)
  \/ \E p \in SeqProcs, in \in SuggestInputs, limit \in Limits :
       CallSuggestions(p, in[1], in[2], limit)
  \/ \E p \in SeqProcs, raises \in BOOLEAN : SuggestCacheGet(p, raises)
  \/ \E p \in SeqProcs, reply \in SuggestReplies : SuggestRemote(p, reply)
  \/ \E p \in SeqProcs, raises \in BOOLEAN : SuggestCacheSetex(p, raises)
  \/ \E p \in SeqProcs, circular \in BOOLEAN : CallInsights(p, circular)
  \/ \E p \in SeqProcs, reply \in InsightReplies : InsightsRemote(p, reply)
  \/ \E p \in SeqProcs, transcription \in Transcriptions : CallVoice(p, transcription)
  \/ \E p \in SeqProcs, reply \in VoiceReplies : VoiceRemote(p, reply)

Spec ==
  Init /\ [][Next]_vars

\* Two processes, analyzeTask only, on one request and three remote
\* outcomes: the invocations interleave at their awaits.
ConcInputs ==
  { <<T_Fix, D_good>> }

ConcReplies ==
  { RemoteRaises, Content(replyFull), Content(replyPartial) }

InitConc ==
  InitSlots(ConcProcs)

NextConc ==
  \/ \E hasKey \in BOOLEAN : Initialize(hasKey)
  \/ Shutdown
  \/ Tick
  \/ \E p \in ConcProcs : Return(p)
  \/ \E p \in ConcProcs, in \in ConcInputs : CallAnalyzeTask(p, in[1], in[2], FALSE)
  \/ \E p \in ConcProcs, raises \in BOOLEAN : AnalyzeCacheGet(p, raises)
  \/ \E p \in ConcProcs, reply \in ConcReplies : AnalyzeRemote(p, reply)
  \/ \E p \in ConcProcs, raises \in BOOLEAN : AnalyzeCacheSetex(p, raises)

SpecConc ==
  InitConc /\ [][NextConc]_vars

(***************************************************************************)
(* The pure helpers, applied to drawn arguments                            *)
(***************************************************************************)

\* The values validateRange is applied to: numbers around the bounds, and
\* values of every other type.
RangeNumbers ==
  { 0 - 26, 0 - 25, 0, 44, 45, 50, 54, 55, 100, 104, 105, 120, 121, 122, 124, 125,
    994, 995, 996, 1000, 1001, 1004, 1996, 2000, 2004, 3996, 4000, 4004 }

RangeValues ==
  {VNum(x) : x \in RangeNumbers}
  \cup { VUndef, VNull, VBool(TRUE), VBool(FALSE), VStr(<<>>), VStr(<<"7", ".", "4", "6">>),
         VStr(<<"x">>), VArr(<<>>), VArr(<<VNum(750)>>), VArr(<<VNum(1), VNum(2)>>), VObj(<<>>) }

\* The bounds validateRange is applied with: those of its three call sites,
\* and bounds that are no multiples of a tenth, non-positive, or equal.
RangeBounds ==
  { <<U(1), U(10)>>, <<U(1) \div 2, U(40)>>, <<U(1) \div 2, U(20)>>,
    <<121, 124>>, <<0 - 26, 0 - 24>>, <<0, 0>> }

RangeDefaults ==
  { U(5), U(2), U(1), U(5) \div 4 }

ApplyValidateRange(value, min, max, defaultValue) ==
  /\ pure = NoPure
  /\ pure' = [NoPure EXCEPT !.fn = "validateRange", !.value = value, !.min = min, !.max = max,
                            !.defaultValue = defaultValue,
                            !.out = VNum(validateRange(value, min, max, defaultValue))]
  /\ UNCHANGED <<isInitialized, cache, slots, freshRet>>

\* validateRange applied to its own result, with the same bounds and default.
ApplyValidateRangeAgain ==
  /\ pure.fn = "validateRange"
  /\ pure' = [pure EXCEPT !.fn = "validateRangeAgain", !.value = pure.out,
                          !.out = VNum(validateRange(pure.out, pure.min, pure.max,
                                                     pure.defaultValue))]
  /\ UNCHANGED <<isInitialized, cache, slots, freshRet>>

\* The members whose value is not undefined: the members a parsed JSON object
\* can have.
RECURSIVE Defined(_)
Defined(members) ==
  IF members = <<>> THEN <<>>
  ELSE IF Head(members).val.k = "undefined" THEN Defined(Tail(members))
  ELSE <<Head(members)>> \o Defined(Tail(members))

\* The parsed replies finalAnalysis is applied to: each of priority,
\* estimatedHours, tags and suggestedSubtasks absent, falsy or empty, of
\* another type, and present.
PureAnalyses ==
  { VObj(Defined(<< [key |-> K.priority, val |-> priority],
                    [key |-> K.estimatedHours, val |-> estimatedHours],
                    [key |-> K.tags, val |-> tags],
                    [key |-> K.suggestedSubtasks, val |-> suggestedSubtasks] >>)) :
      priority \in {VUndef, VNum(0), VNum(746)},
      estimatedHours \in {VUndef, VStr(<<>>), VNum(250)},
      tags \in {VUndef, VArr(<<>>), VStr(<<"a">>), VArr(<<VStr(<<"a">>)>>)},
      suggestedSubtasks \in {VUndef, VNull, VArr(<<>>), VArr(<<VStr(<<"s">>)>>)} }

ApplyFinalAnalysis(analysis, description) ==
  /\ pure = NoPure
  /\ pure' = [NoPure EXCEPT !.fn = "finalAnalysis", !.value = analysis, !.text = description,
                            !.out = finalAnalysis(analysis, description)]
  /\ UNCHANGED <<isInitialized, cache, slots, freshRet>>

\* The titles and descriptions fallbackAnalysis is applied to: with and
\* without keywords of either set, a keyword in capitals, one inside a longer
\* word, and one that only the concatenation without the space would spell.
FallbackTitles ==
  { <<>>, T_Fix, T_DesignASAP, <<"U", "R", "G", "E", "N", "T">>, <<"R", "e", "f", "a", "c", "t", "o", "r">>, <<"D", "e", "a", "d", "l", "i", "n", "e", "s">>, <<"a", "s">> }

FallbackDescriptions ==
  { <<>>, D_good, D_badbugs, <<"a", "p">>, <<"c", "r", "i", "t", "i", "c", "a", "l", " ", "r", "e", "s", "e", "a", "r", "c", "h">>, <<"I", "n", "t", "e", "g", "r", "a", "t", "i", "o", "n">> }

\* text is the title, value the description.
ApplyFallbackAnalysis(title, description) ==
  /\ pure = NoPure
  /\ pure' = [NoPure EXCEPT !.fn = "fallbackAnalysis", !.text = title,
                            !.value = VStr(description),
                            !.out = fallbackAnalysis(title, description)]
  /\ UNCHANGED <<isInitialized, cache, slots, freshRet>>

NextPure ==
  \/ \E value \in RangeValues, bounds \in RangeBounds, defaultValue \in RangeDefaults :
       ApplyValidateRange(value, bounds[1], bounds[2], defaultValue)
  \/ ApplyValidateRangeAgain
  \/ \E title \in FallbackTitles, description \in FallbackDescriptions :
       ApplyFallbackAnalysis(title, description)
  \/ \E analysis \in PureAnalyses, description \in {D_good, D_badbugs} :
       ApplyFinalAnalysis(analysis, description)

SpecPure ==
  Init /\ [][NextPure]_vars

(***************************************************************************)
(* Properties                                                              *)
(***************************************************************************)

\* The settled invocations of a method.
DoneOf(op) ==
  {p \in DOMAIN slots : slots[p].pc = "done" /\ slots[p].op = op}

\* The JSON object analyzeTask parses out of a reply: the matched text, read.
ParsedReply(reply) ==
  JSONparse(jsonMatch(reply.text).text)

\* The reply is content in which a JSON object is matched and parses.
ReplyParses(reply) ==
  /\ reply.kind = "content"
  /\ reply.text # <<>>
  /\ jsonMatch(reply.text).found
  /\ ParsedReply(reply).ok

\* C1: analyzeTask, generateTaskSuggestions and generateProductivityInsights
\* never raise: whatever the input and whichever collaborator fails at
\* whichever stage, a settled invocation of one of them has returned a value.
NeverRaises ==
  \A p \in DOMAIN slots :
    /\ slots[p].pc = "done"
    /\ slots[p].op \in {"analyzeTask", "generateTaskSuggestions", "generateProductivityInsights"}
    => /\ slots[p].out = "returned"
       /\ slots[p].val # VUndef
       /\ slots[p].err = NoErr

\* C1 happens: an analyzeTask invocation whose cache write raised, after a
\* reply that parsed, has settled with a value.
NeverRaisesWitness ==
  \E p \in DoneOf("analyzeTask") :
    /\ slots[p].path = "setexRaised"
    /\ ReplyParses(slots[p].reply)
    /\ slots[p].out = "returned"

InRange(v, lo, hi) ==
  v.k = "number" /\ lo <= v.n /\ v.n <= hi

OneOf(v, strs) ==
  v.k = "string" /\ \E i \in 1..Len(strs) : v.s = strs[i]

ArrayUpTo(v, n) ==
  v.k = "array" /\ Len(v.a) <= n

TaskAnalysisKeys ==
  << K.priority, K.estimatedHours, K.complexity, K.sentiment, K.tags, K.deadlineUrgency,
     K.suggestedSubtasks, K.optimalTimeSlot, K.confidenceScore >>

\* A well-formed TaskAnalysis: the nine fields, each in its range.
WellFormed(v) ==
  /\ v.k = "object"
  /\ \A i \in 1..Len(TaskAnalysisKeys) : \E j \in 1..Len(v.o) : v.o[j].key = TaskAnalysisKeys[i]
  /\ InRange(Get(v, K.priority), 1 * Unit, 10 * Unit)
  /\ InRange(Get(v, K.estimatedHours), Unit \div 2, 40 * Unit)
  /\ InRange(Get(v, K.deadlineUrgency), 1 * Unit, 10 * Unit)
  /\ OneOf(Get(v, K.complexity), <<S.low, S.medium, S.high>>)
  /\ OneOf(Get(v, K.sentiment), <<S.positive, S.negative, S.neutral>>)
  /\ OneOf(Get(v, K.optimalTimeSlot), <<S.morning, S.afternoon, S.evening, S.flexible>>)
  /\ ArrayUpTo(Get(v, K.tags), 8)
  /\ ArrayUpTo(Get(v, K.suggestedSubtasks), 5)
  /\ InRange(Get(v, K.confidenceScore), 60 * Unit, 99 * Unit)

\* C2: every TaskAnalysis analyzeTask returns (computed from a reply, the
\* heuristic fallback, or read back from the cache) has the nine fields, each
\* within its range or enumeration, whatever the reply's object contains.
AnalysisWellFormed ==
  \A p \in DoneOf("analyzeTask") :
    slots[p].out = "returned" /\ WellFormed(slots[p].val)

\* C2 happens: an analysis computed from a reply whose fields have the wrong
\* types, nine tags and six subtasks is returned with eight and five.
AnalysisWellFormedWitness ==
  \E p \in DoneOf("analyzeTask") :
    /\ slots[p].path = "fresh"
    /\ slots[p].reply = Content(replyMessy)
    /\ Len(Get(ParsedReply(slots[p].reply).val, K.tags).a) > 8
    /\ Len(Get(slots[p].val, K.tags).a) = 8
    /\ Len(Get(slots[p].val, K.suggestedSubtasks).a) = 5

\* The invocation failed for one of the causes of C3.
FailedFor(slot) ==
  \/ slot.path = "uninitialized"
  \/ slot.reply.kind = "raise"
  \/ slot.reply.kind = "content" /\ ~ReplyParses(slot.reply)

\* C3: for a title and description, analyzeTask returns the same heuristic
\* fallback whatever the cause of failure (service uninitialized, remote call
\* raising, empty content, no JSON object in the reply, an invalid one): the
\* result of fallbackAnalysis(title, description).
SameFallback ==
  \A p \in DoneOf("analyzeTask") :
    FailedFor(slots[p])
    => /\ slots[p].out = "returned"
       /\ slots[p].val = fallbackAnalysis(slots[p].a1, slots[p].a2)

\* C3 happens: a reply holding an invalid JSON object, for a description
\* that has keywords, has settled with the fallback.
SameFallbackWitness ==
  \E p \in DoneOf("analyzeTask") :
    /\ slots[p].reply = Content(replyBadJson)
    /\ slots[p].a2 = D_badbugs
    /\ Len(Get(slots[p].val, K.tags).a) > 1
    /\ Get(slots[p].val, K.confidenceScore) = VNum(U(70))

\* C4: parseVoiceToTask called while the service is uninitialized fails with
\* the service-unavailable error (status 503, 'AI service not available') as
\* the failure the caller observes.
VoiceUnavailable503 ==
  \A p \in DoneOf("parseVoiceToTask") :
    slots[p].path = "uninitialized"
    => /\ slots[p].out = "raised"
       /\ slots[p].err = [status |-> 503, message |-> "AI service not available"]

\* C5: the cache is never a correctness dependency of analyzeTask: with the
\* service initialized, a cache get that raises does not end the pipeline,
\* and a reply that parses is returned validated also when the cache write
\* raises.
CacheNeverADependency ==
  \A p \in DoneOf("analyzeTask") :
    /\ slots[p].path # "getRaised"
    /\ ReplyParses(slots[p].reply)
       => slots[p].val = finalAnalysis(ParsedReply(slots[p].reply).val, slots[p].a2)

RoundTripOfEarlier ==
  \A p \in DoneOf("analyzeTask") :
    slots[p].path \notin {"uninitialized", "getRaised", "setexRaised"}
    => \A v \in slots[p].prior :
         slots[p].val = v /\ JSONstringify(slots[p].val) = JSONstringify(v)

\* C7, amended: an analyzeTask invocation that reads an entry from the cache
\* returns a value identical to the one the invocation that wrote that
\* entry (the latest writer under the key) returned, serialised to the same
\* JSON as the entry.
RoundTripOfWriter ==
  \A p \in DoneOf("analyzeTask") :
    slots[p].path = "cached"
    => /\ slots[p].val = slots[p].heldRet
       /\ JSONstringify(slots[p].val) = slots[p].held
       /\ JSONstringify(slots[p].heldRet) = slots[p].held

\* C7 happens: a later invocation has read back an analysis with a
\* fractional number that an earlier invocation computed and returned.
RoundTripOfWriterWitness ==
  \E p \in DoneOf("analyzeTask") :
    /\ slots[p].path = "cached"
    /\ slots[p].val \in slots[p].prior
    /\ Get(slots[p].val, K.estimatedHours) = VNum(250)
    /\ Get(slots[p].val, K.priority) = VNum(750)

\* The index of the "}" that closes the "{" the scan started on, 0 when
\* there is none.
RECURSIVE ClosingBrace(_, _, _)
ClosingBrace(text, i, depth) ==
  IF i > Len(text) THEN 0
  ELSE IF text[i].t = "{" THEN ClosingBrace(text, i + 1, depth + 1)
  ELSE IF text[i].t = "}"
    THEN IF depth = 1 THEN i ELSE ClosingBrace(text, i + 1, depth - 1)
  ELSE ClosingBrace(text, i + 1, depth)

\* The first syntactically balanced {...} region of a text.
firstBalanced(text) ==
  LET opens == {i \in 1..Len(text) : text[i].t = "{"}
      first == CHOOSE i \in opens : \A j \in opens : i <= j
      last == ClosingBrace(text, first, 0)
  IN IF opens = {} THEN [found |-> FALSE, text |-> <<>>]
     ELSE IF last = 0 THEN [found |-> FALSE, text |-> <<>>]
     ELSE [found |-> TRUE, text |-> SubSeq(text, first, last)]

\* C8: the parser of analyzeTask extracts the first balanced JSON object of
\* the reply: whenever that region is valid JSON, it is what is parsed and
\* validated, also when text holding braces follows it.
ParsesFirstBalanced ==
  \A p \in DoneOf("analyzeTask") :
    LET region == firstBalanced(slots[p].reply.text)
    IN /\ slots[p].reply.kind = "content"
       /\ region.found
       /\ JSONparse(region.text).ok
       /\ slots[p].path # "setexRaised"
       => /\ slots[p].path = "fresh"
          /\ slots[p].val = finalAnalysis(JSONparse(region.text).val, slots[p].a2)

Indicator(b) ==
  IF b THEN 1 ELSE 0

Clamp(x, lo, hi) ==
  IF x < lo THEN lo ELSE IF x > hi THEN hi ELSE x

\* The four conditions of the confidence score on a parsed reply.
ConfidenceConditions(analysis) ==
  << Falsy(Get(analysis, K.priority)),
     Falsy(Get(analysis, K.estimatedHours)),
     Get(analysis, K.tags).k # "array" \/ Get(analysis, K.tags).a = <<>>,
     Get(analysis, K.suggestedSubtasks).k # "array" >>

\* C9: on the non-fallback path the confidence score is
\* clamp(85 - 10*[priority absent or falsy] - 10*[estimatedHours absent or
\* falsy] - 5*[tags not an array or empty] - 5*[suggestedSubtasks not an
\* array], 60, 99) on the reply before validation: an integer in [60,99].
ConfidenceClosedForm ==
  pure.fn = "finalAnalysis"
  => LET c == ConfidenceConditions(pure.value)
         score == Clamp(85 - 10 * Indicator(c[1]) - 10 * Indicator(c[2])
                           - 5 * Indicator(c[3]) - 5 * Indicator(c[4]), 60, 99)
         confidence == Get(pure.out, K.confidenceScore)
     IN /\ confidence = VNum(score * Unit)
        /\ InRange(confidence, 60 * Unit, 99 * Unit)
        /\ confidence.n % Unit = 0

\* C9 happens: with all four conditions true the sum is 55 and the score is
\* the lower bound, 60.
ConfidenceClosedFormWitness ==
  /\ pure.fn = "finalAnalysis"
  /\ ConfidenceConditions(pure.value) = <<TRUE, TRUE, TRUE, TRUE>>
  /\ Get(pure.out, K.confidenceScore) = VNum(60 * Unit)

\* C10: for all values and all min <= max and default, validateRange returns
\* a value in [min,max] or exactly default: the rounding to one decimal place
\* never moves an in-range value out of the range.
RangeResultInBounds ==
  pure.fn = "validateRange" /\ pure.min <= pure.max
  => \/ pure.out = VNum(pure.defaultValue)
     \/ InRange(pure.out, pure.min, pure.max)

\* C11: validateRange is idempotent under re-application: applied to its own
\* result with the same bounds and default, it returns that result.
RangeIdempotent ==
  pure.fn = "validateRangeAgain" => pure.out = pure.value

\* Some keyword of the list is a substring of the text.
HasKeyword(keywords, text) ==
  \E k \in 1..Len(keywords) :
    \E i \in 0..(Len(text) - Len(keywords[k])) :
      \A j \in 1..Len(keywords[k]) : text[i + j] = keywords[k][j]

\* The rows of the table: priority, estimatedHours, complexity and
\* deadlineUrgency for urgent and complex.
FallbackRow(urgent, complex) ==
  IF urgent /\ complex THEN <<8, 6, S.high, 9>>
  ELSE IF urgent THEN <<8, 2, S.medium, 9>>
  ELSE IF complex THEN <<6, 6, S.high, 5>>
  ELSE <<4, 2, S.medium, 5>>

\* C12: the fallback's priority, estimatedHours, complexity and
\* deadlineUrgency depend only on whether an urgency keyword and whether a
\* complexity keyword is a case-insensitive substring of title + ' ' +
\* description, by the table of four rows; sentiment is neutral, the
\* confidence 70, suggestedSubtasks empty and optimalTimeSlot flexible.
FallbackTable ==
  pure.fn = "fallbackAnalysis"
  => LET text == toLowerCase(pure.text \o <<" ">> \o pure.value.s)
         row == FallbackRow(HasKeyword(urgentKeywords, text), HasKeyword(complexKeywords, text))
     IN /\ Get(pure.out, K.priority) = VNum(row[1] * Unit)
        /\ Get(pure.out, K.estimatedHours) = VNum(row[2] * Unit)
        /\ Get(pure.out, K.complexity) = VStr(row[3])
        /\ Get(pure.out, K.deadlineUrgency) = VNum(row[4] * Unit)
        /\ Get(pure.out, K.sentiment) = VStr(S.neutral)
        /\ Get(pure.out, K.confidenceScore) = VNum(70 * Unit)
        /\ Get(pure.out, K.suggestedSubtasks) = VArr(<<>>)
        /\ Get(pure.out, K.optimalTimeSlot) = VStr(S.flexible)

\* C12 happens: a title with a complexity keyword and an urgency keyword in
\* capitals gives the row (8, 6, high, 9).
FallbackTableWitness ==
  /\ pure.fn = "fallbackAnalysis"
  /\ pure.text = T_DesignASAP
  /\ pure.value.s = D_badbugs
  /\ Get(pure.out, K.priority) = VNum(8 * Unit)
  /\ Get(pure.out, K.estimatedHours) = VNum(6 * Unit)
  /\ Get(pure.out, K.complexity) = VStr(S.high)
  /\ Get(pure.out, K.deadlineUrgency) = VNum(9 * Unit)

\* The invocations that settled with an analysis computed from a reply.
Fresh ==
  {p \in DoneOf("analyzeTask") : slots[p].path = "fresh"}

\* The sentiment that is the sign of a score.
SignOf(score) ==
  IF score > 0 THEN S.positive ELSE IF score < 0 THEN S.negative ELSE S.neutral

\* C13: the sentiment of a freshly computed analyzeTask result never depends
\* on the remote reply: two non-fallback invocations of the same title and
\* description with different parsable replies (also replies that carry a
\* sentiment field) return the same sentiment, the sign of the score
\* computed locally from the description.
SentimentLocal ==
  \A p \in Fresh :
    /\ Get(slots[p].val, K.sentiment) = VStr(SignOf(analyzeSentiment(slots[p].a2)))
    /\ \A q \in Fresh :
         slots[q].a1 = slots[p].a1 /\ slots[q].a2 = slots[p].a2
         => Get(slots[q].val, K.sentiment) = Get(slots[p].val, K.sentiment)

\* C13 happens: two invocations of one request have settled on different
\* replies, one of which says negative, with the sentiment positive.
SentimentLocalWitness ==
  \E p \in Fresh, q \in Fresh :
    /\ p # q
    /\ slots[p].a1 = slots[q].a1 /\ slots[p].a2 = slots[q].a2
    /\ slots[p].reply # slots[q].reply
    /\ Get(ParsedReply(slots[p].reply).val, K.sentiment) = VStr(S.negative)
    /\ Get(slots[p].val, K.sentiment) = VStr(S.positive)
    /\ Get(slots[q].val, K.sentiment) = VStr(S.positive)

\* C14: every value generateTaskSuggestions returns is an array, over any
\* sequence of invocations: also when an earlier invocation of the same
\* userId and context received valid JSON that is no array and this one is
\* served from the cache.
SuggestionsAlwaysArray ==
  \A p \in DoneOf("generateTaskSuggestions") :
    slots[p].out = "returned" /\ slots[p].val.k = "array"

\* result is the first min(Len, limit) elements of the reply's value when
\* that is an array, in their order, and empty otherwise.
TruncatedTo(result, given, limit) ==
  /\ result.k = "array"
  /\ IF given.k = "array"
       THEN /\ Len(result.a) = (IF Len(given.a) < limit THEN Len(given.a) ELSE limit)
            /\ \A i \in 1..Len(result.a) : result.a[i] = given.a[i]
       ELSE result.a = <<>>

\* C15: array validation in analyzeTask preserves order and only truncates:
\* the result's tags are the first min(n, 8) elements of the reply's tags
\* when these are an array of n elements, and empty otherwise; likewise
\* suggestedSubtasks with 5.
TruncatesInOrder ==
  \A p \in Fresh :
    LET given == ParsedReply(slots[p].reply).val
    IN /\ TruncatedTo(Get(slots[p].val, K.tags), Get(given, K.tags), 8)
       /\ TruncatedTo(Get(slots[p].val, K.suggestedSubtasks),
                      Get(given, K.suggestedSubtasks), 5)

\* C15 happens: of nine distinct tags the first eight are kept, the eighth in
\* its place, and of six subtasks the first five.
TruncatesInOrderWitness ==
  \E p \in Fresh :
    LET given == ParsedReply(slots[p].reply).val
    IN /\ Get(given, K.tags).k = "array"
       /\ Len(Get(given, K.tags).a) = 9
       /\ Len(Get(slots[p].val, K.tags).a) = 8
       /\ Get(slots[p].val, K.tags).a[8] = VStr(<<"e">>)
       /\ Get(given, K.tags).a[9] = VStr(<<"f">>)
       /\ Len(Get(given, K.suggestedSubtasks).a) = 6
       /\ Get(slots[p].val, K.suggestedSubtasks).a[5] = VStr(<<"5">>)

\* C16: every element of tags and of suggestedSubtasks in a result that
\* analyzeTask computes from a reply is a string, whatever the types of the
\* elements of the reply's arrays.
ElementsAreStrings ==
  \A p \in Fresh :
    /\ \A i \in 1..Len(Get(slots[p].val, K.tags).a) :
         Get(slots[p].val, K.tags).a[i].k = "string"
    /\ \A i \in 1..Len(Get(slots[p].val, K.suggestedSubtasks).a) :
         Get(slots[p].val, K.suggestedSubtasks).a[i].k = "string"

\* C20: generateTaskSuggestions(userId, context, limit) never returns more
\* than limit suggestions: on the remote path, on the default path and on a
\* cache hit for an entry written by an invocation with another limit.
SuggestionsWithinLimit ==
  \A p \in DoneOf("generateTaskSuggestions") :
    slots[p].val.k = "array" => Len(slots[p].val.a) <= slots[p].limit

\* C17: concurrent analyzeTask invocations are not coalesced: an invocation
\* whose cache check misses makes a remote call of its own, also while
\* another invocation of the same key is in flight, and its cache write
\* stores the analysis of its own reply over whatever entry is there: no
\* invocation reuses the result of another one in flight.
NotCoalesced ==
  [][\A p \in DOMAIN slots :
       slots[p].op = "analyzeTask"
       => /\ slots[p].pc = "get" /\ slots'[p].pc # "get" /\ slots'[p].path # "getRaised"
             /\ CacheValue(slots[p].key) = <<>>
             => slots'[p].pc = "remote" /\ slots'[p].remote = 1
          /\ slots[p].pc = "setex" /\ slots'[p].path = "fresh"
             => /\ slots'[p].val = finalAnalysis(ParsedReply(slots[p].reply).val, slots[p].a2)
                /\ slots'[p].remote = 1
                /\ slots'[p].wrote = 1
                /\ cache'[slots[p].key].val = JSONstringify(slots'[p].val)
                /\ cache'[slots[p].key].ttl = AnalysisTtl]_vars

\* C17 happens: two invocations of one key both missed the cache, both made
\* a remote call and both wrote the entry; their analyses differ and the
\* entry holds that of the second writer only.
NotCoalescedWitness ==
  \E p \in Fresh, q \in Fresh :
    /\ p # q
    /\ slots[p].key = slots[q].key
    /\ slots[p].held = <<>> /\ slots[q].held = <<>>
    /\ slots[p].remote = 1 /\ slots[q].remote = 1
    /\ slots[p].wrote = 1 /\ slots[q].wrote = 1
    /\ slots[p].val # slots[q].val
    /\ slots[p].key \in DOMAIN cache
    /\ cache[slots[p].key].val = JSONstringify(slots[q].val)
    /\ cache[slots[p].key].ttl = AnalysisTtl

\* C18: the analysis cache key is a function of the concatenation
\* title + description only (not of where the title ends, not of the
\* context): requests with equal concatenations use the same key, so once one
\* of them has been cached the other returns that cached analysis, with the
\* sentiment of the other request's description.
KeyOfConcatenation ==
  \A p \in DOMAIN slots :
    slots[p].op = "analyzeTask"
    => /\ slots[p].key = analysisKeyPrefix \o Base64(slots[p].a1 \o slots[p].a2)
       /\ \A r \in freshRet :
            /\ r.title \o r.description = slots[p].a1 \o slots[p].a2
            /\ slots[p].pc = "done"
            /\ slots[p].path \notin {"uninitialized", "getRaised", "setexRaised"}
            => slots[p].val = r.val

\* C18 happens: ("Fi", "xgood") has been answered with the analysis cached
\* for ("Fix", "good"): its sentiment is positive, that of its own
\* description is neutral.
KeyOfConcatenationWitness ==
  \E p \in DoneOf("analyzeTask") :
    /\ slots[p].path = "cached"
    /\ slots[p].a1 = T_Fi /\ slots[p].a2 = D_xgood
    /\ \E r \in freshRet : r.title = T_Fix /\ r.description = D_good /\ r.val = slots[p].val
    /\ Get(slots[p].val, K.sentiment) = VStr(S.positive)
    /\ SignOf(analyzeSentiment(slots[p].a2)) = S.neutral

\* The texts of the analyses that validation makes of the parsable replies,
\* per request.
ValidatedTexts ==
  { <<analysisCacheKey(in[1], in[2]),
      JSONstringify(finalAnalysis(ParsedReply(reply).val, in[2]))>> :
      in \in AnalyzeInputs, reply \in {r \in AnalyzeReplies : ReplyParses(r)} }

\* The texts of the heuristic fallbacks.
FallbackTexts ==
  { JSONstringify(fallbackAnalysis(in[1], in[2])) : in \in AnalyzeInputs }

IsAnalysisKey(key) ==
  /\ Len(key) >= Len(analysisKeyPrefix)
  /\ SubSeq(key, 1, Len(analysisKeyPrefix)) = analysisKeyPrefix

\* C19: heuristic fallbacks are never cached: every value under a
\* task_analysis key is the validated analysis of a parsable reply, written
\* once by the invocation that received it, with a time to live of 3600; an
\* invocation that falls back because the service is uninitialized, the
\* remote call failed, the content was empty or the parse failed writes
\* nothing.
FallbackNeverCached ==
  /\ \A k \in DOMAIN cache :
       IsAnalysisKey(k)
       => /\ <<k, cache[k].val>> \in ValidatedTexts
          /\ cache[k].val \notin FallbackTexts
          /\ cache[k].ttl > 0 /\ cache[k].ttl <= AnalysisTtl
  /\ \A p \in DoneOf("analyzeTask") :
       /\ FailedFor(slots[p]) => slots[p].wrote = 0
       /\ slots[p].path = "fresh"
          => /\ slots[p].wrote = 1
             /\ ReplyParses(slots[p].reply)
             /\ slots[p].key \in DOMAIN cache /\ cache[slots[p].key].ttl = AnalysisTtl
                => cache[slots[p].key].val = JSONstringify(slots[p].val)

\* C19 happens: an invocation has fallen back on an invalid reply and
\* nothing is cached under its key.
FallbackNeverCachedWitness ==
  \E p \in DoneOf("analyzeTask") :
    /\ slots[p].reply = Content(replyBadJson)
    /\ slots[p].val = fallbackAnalysis(slots[p].a1, slots[p].a2)
    /\ slots[p].wrote = 0
    /\ slots[p].key \notin DOMAIN cache

=============================================================================
